---- MODULE Spec2Model ----
(***************************************************************************)
(* Model of firestudio/backend/monitoring.py: the monitor_endpoint         *)
(* decorator (its async wrapper run by a cooperative event loop), the      *)
(* Prometheus instruments it updates, the structured logger it writes to,  *)
(* the two domain event recorders log_sensor_data / log_ml_prediction and  *)
(* start_metrics_server.                                                   *)
(***************************************************************************)
EXTENDS Integers, Sequences, FiniteSets

(* ---------------- bounds of the model ---------------- *)

\* number of concurrent invocations of wrapped operations
NumTasks == 2
\* largest reading of the wall clock time.time()
MaxNow == 1
\* number of calls made to the recorders and to start_metrics_server
MaxRecCalls == 3

(* ---------------- input domains ---------------- *)

Tasks == 1..NumTasks
NoTask == 0
Endpoints == {"upload", "health"}
Methods == {"GET", "POST"}
Values == {"json"}
\* failures the wrapped operation can raise: OpError is an Exception,
\* CancelledError derives from BaseException only
OpFailures == {"OpError", "CancelledError"}
\* failure raised by a logging call whose emission fails
LogFailure == "LogError"
DeviceIds == {"dev1"}
DataTypes == {"soil", "npk"}
ModelTypes == {"disease", "yield"}
Confidences == {0, 1}
Ports == {9090}
\* levels the host application can leave or set on the stdlib logger; nothing in
\* monitoring.py sets one, and the stdlib default is "warning"; "critical" stands
\* for every setting that filters error events too
Levels == {"info", "warning", "critical"}

VARIABLES
  pc,               \* position of each invocation in wrapper
  endpoint,         \* endpoint_name of the decorator used by the invocation
  method,           \* real method of the wrapped operation
  start_time,       \* local start_time
  outcome,          \* value being returned / exception in flight, then what the caller receives
  opOut,            \* what the wrapped operation itself produced
  observed,         \* REQUEST_DURATION.observe calls made by each invocation
  running,          \* the task the event loop is executing, NoTask between tasks
  now,              \* time.time()
  REQUEST_COUNT,    \* Counter with labels (method, endpoint)
  REQUEST_DURATION, \* Histogram: count and sum
  SENSOR_DATA_COUNT,\* Counter declared without labels
  MODEL_PREDICTIONS,\* Counter with label model_type
  log,              \* events written by logger, in order
  minLevel,         \* effective level of the stdlib logger behind logger
  recCalls,         \* number of recorder calls made
  lastCall          \* the last recorder call and how it ended

vars == <<pc, endpoint, method, start_time, outcome, opOut, observed, running, now,
          REQUEST_COUNT, REQUEST_DURATION, SENSOR_DATA_COUNT, MODEL_PREDICTIONS,
          log, minLevel, recCalls, lastCall>>

wrapVars == <<pc, endpoint, method, start_time, outcome, opOut, observed, running,
              REQUEST_COUNT, REQUEST_DURATION>>
recVars == <<SENSOR_DATA_COUNT, MODEL_PREDICTIONS, recCalls, lastCall>>
\* what a wrapper step leaves alone: the recorders' state and the logger's level
restVars == <<recVars, minLevel>>

None == [kind |-> "none", val |-> "none"]
Return(v) == [kind |-> "return", val |-> v]
Raise(x) == [kind |-> "raise", val |-> x]

(* ---------------- instruments and logger ---------------- *)

\* (variant: a second increment per call)
CounterIncTwice(c, labels) == [c EXCEPT ![labels] = @ + 2]

\* (variant: the child is set rather than added to)
CounterIncReset(c, labels) == [c EXCEPT ![labels] = 1]

\* Counter.inc() on the child selected by the label values
CounterInc(c, labels) == [c EXCEPT ![labels] = @ + 1]

\* (variant: an observation overwrites the previous ones)
HistObserveLost(h, amount) == [count |-> 1, sum |-> amount]

\* Histogram.observe(amount)
HistObserve(h, amount) == [count |-> h.count + 1, sum |-> h.sum + amount]

\* the method label the wrapper passes to REQUEST_COUNT.labels
MethodLabel(m) == "POST"

\* `except Exception`: which failures the handler catches
IsException(x) == x \in {"OpError", LogFailure}

\* (variant: the observation follows the try statement instead of being its
\* finally clause, so a failure the handler does not catch skips it)
AfterRaiseNoFinally(x) == IF IsException(x) THEN "except" ELSE "done"

\* where control goes when the try body raises x
AfterRaise(x) == IF IsException(x) THEN "except" ELSE "finally"

\* (variant: the info log is awaited too)
SuspendsAtLog(p) == p \in {"await", "info"}

\* the only point where wrapper gives control back to the event loop
Suspends(p) == p = "await"

NextRunning(i, p) == IF Suspends(p) \/ p = "done" THEN NoTask ELSE i

\* logging level numbers of the stdlib
LevelRank(l) == CASE l = "info" -> 20 [] l = "warning" -> 30 [] l = "error" -> 40
                  [] l = "critical" -> 50

\* structlog.stdlib.filter_by_level, the first processor: an event below the
\* logger's effective level is dropped, and the call returns normally
Enabled(l) == LevelRank(l) >= LevelRank(minLevel)

\* how a call of logger.info / logger.error ends; ok = FALSE: an enabled event
\* fails to be rendered or written and the call raises
LogOutcome(l, ok) == IF ~Enabled(l) THEN "drop" ELSE IF ok THEN "emit" ELSE "raise"

InfoRecord(i) ==
  [level |-> "info", event |-> "API request completed", endpoint |-> endpoint[i],
   duration |-> now - start_time[i], status |-> "success", error |-> "none", inv |-> i]

ErrorRecord(i) ==
  [level |-> "error", event |-> "API request failed", endpoint |-> endpoint[i],
   duration |-> now - start_time[i], status |-> "error", error |-> outcome[i].val, inv |-> i]

(* ---------------- initial state ---------------- *)

Init ==
  /\ pc = [i \in Tasks |-> "idle"]
  /\ endpoint = [i \in Tasks |-> "none"]
  /\ method = [i \in Tasks |-> "none"]
  /\ start_time = [i \in Tasks |-> 0]
  /\ outcome = [i \in Tasks |-> None]
  /\ opOut = [i \in Tasks |-> None]
  /\ observed = [i \in Tasks |-> 0]
  /\ running = NoTask
  /\ now = 0
  /\ REQUEST_COUNT = [l \in Methods \X Endpoints |-> 0]
  /\ REQUEST_DURATION = [count |-> 0, sum |-> 0]
  /\ SENSOR_DATA_COUNT = 0
  /\ MODEL_PREDICTIONS = [t \in ModelTypes |-> 0]
  /\ log = <<>>
  /\ minLevel \in Levels
  /\ recCalls = 0
  /\ lastCall = [fn |-> "none", raised |-> "none", incs |-> 0, logs |-> 0]

(* ---------------- the wrapper of monitor_endpoint ---------------- *)

\* the event loop enters or resumes i only when no task is running, and only at
\* the start of wrapper or at a suspension point; i then runs until it suspends
CanRun(i) ==
  \/ running = i
  \/ running = NoTask /\ (pc[i] = "idle" \/ Suspends(pc[i]))

Step(i, p) ==
  /\ pc' = [pc EXCEPT ![i] = p]
  /\ running' = NextRunning(i, p)

\* wrapper is entered: start_time = time.time()
\* (invocations are numbered in the order in which they are entered)
Start(i, e, m) ==
  /\ pc[i] = "idle" /\ CanRun(i)
  /\ \A j \in Tasks : j < i => pc[j] # "idle"
  /\ endpoint' = [endpoint EXCEPT ![i] = e]
  /\ method' = [method EXCEPT ![i] = m]
  /\ start_time' = [start_time EXCEPT ![i] = now]
  /\ Step(i, "inc")
  /\ UNCHANGED <<outcome, opOut, observed, now, REQUEST_COUNT, REQUEST_DURATION, log>>
  /\ UNCHANGED restVars

\* REQUEST_COUNT.labels(method='POST', endpoint=endpoint_name).inc()
Inc(i) ==
  /\ pc[i] = "inc" /\ CanRun(i)
  /\ REQUEST_COUNT' = CounterInc(REQUEST_COUNT, <<MethodLabel(method[i]), endpoint[i]>>)
  /\ Step(i, "call")
  /\ UNCHANGED <<endpoint, method, start_time, outcome, opOut, observed, now,
                 REQUEST_DURATION, log>>
  /\ UNCHANGED restVars

\* await func(...): the operation reaches a suspension point of its own
OpSuspend(i) ==
  /\ pc[i] = "call" /\ CanRun(i)
  /\ Step(i, "await")
  /\ UNCHANGED <<endpoint, method, start_time, outcome, opOut, observed, now,
                 REQUEST_COUNT, REQUEST_DURATION, log>>
  /\ UNCHANGED restVars

\* the operation is running in i, or i is suspended in it and the loop resumes it
InOperation(i) == pc[i] \in {"call", "await"} /\ CanRun(i)

\* result = await func(...) returns v
OpReturn(i, v) ==
  /\ InOperation(i)
  /\ opOut' = [opOut EXCEPT ![i] = Return(v)]
  /\ outcome' = [outcome EXCEPT ![i] = Return(v)]
  /\ Step(i, "info")
  /\ UNCHANGED <<endpoint, method, start_time, observed, now,
                 REQUEST_COUNT, REQUEST_DURATION, log>>
  /\ UNCHANGED restVars

\* await func(...) raises x, before or after the operation has suspended
OpRaise(i, x) ==
  /\ InOperation(i)
  /\ opOut' = [opOut EXCEPT ![i] = Raise(x)]
  /\ outcome' = [outcome EXCEPT ![i] = Raise(x)]
  /\ Step(i, AfterRaise(x))
  /\ UNCHANGED <<endpoint, method, start_time, observed, now,
                 REQUEST_COUNT, REQUEST_DURATION, log>>
  /\ UNCHANGED restVars

\* logger.info("API request completed", ...); return result
\* a call that raises does so inside the try body
LogInfo(i, ok) ==
  /\ pc[i] = "info" /\ CanRun(i)
  /\ IF LogOutcome("info", ok) = "raise"
       THEN /\ outcome' = [outcome EXCEPT ![i] = Raise(LogFailure)]
            /\ Step(i, AfterRaise(LogFailure))
            /\ UNCHANGED log
       ELSE /\ log' = IF LogOutcome("info", ok) = "emit"
                        THEN Append(log, InfoRecord(i)) ELSE log
            /\ Step(i, "finally")
            /\ UNCHANGED outcome
  /\ UNCHANGED <<endpoint, method, start_time, opOut, observed, now,
                 REQUEST_COUNT, REQUEST_DURATION>>
  /\ UNCHANGED restVars

\* except Exception as e: logger.error("API request failed", ...); raise
\* a call that raises replaces the failure being handled by its own
LogError(i, ok) ==
  /\ pc[i] = "except" /\ CanRun(i)
  /\ IF LogOutcome("error", ok) = "raise"
       THEN /\ outcome' = [outcome EXCEPT ![i] = Raise(LogFailure)]
            /\ UNCHANGED log
       ELSE /\ log' = IF LogOutcome("error", ok) = "emit"
                        THEN Append(log, ErrorRecord(i)) ELSE log
            /\ UNCHANGED outcome
  /\ Step(i, "finally")
  /\ UNCHANGED <<endpoint, method, start_time, opOut, observed, now,
                 REQUEST_COUNT, REQUEST_DURATION>>
  /\ UNCHANGED restVars

\* finally: REQUEST_DURATION.observe(time.time() - start_time); wrapper exits
\* and its local start_time goes with its frame
Finally(i) ==
  /\ pc[i] = "finally" /\ CanRun(i)
  /\ REQUEST_DURATION' = HistObserve(REQUEST_DURATION, now - start_time[i])
  /\ observed' = [observed EXCEPT ![i] = @ + 1]
  /\ start_time' = [start_time EXCEPT ![i] = 0]
  /\ Step(i, "done")
  /\ UNCHANGED <<endpoint, method, outcome, opOut, now, REQUEST_COUNT, log>>
  /\ UNCHANGED restVars

\* the wall clock advances, at any point of any invocation and between them
Tick ==
  /\ now < MaxNow
  /\ now' = now + 1
  /\ UNCHANGED <<pc, endpoint, method, start_time, outcome, opOut, observed, running,
                 REQUEST_COUNT, REQUEST_DURATION, log>>
  /\ UNCHANGED restVars

Next ==
  \/ \E i \in Tasks, e \in Endpoints, m \in Methods : Start(i, e, m)
  \/ \E i \in Tasks : Inc(i)
  \/ \E i \in Tasks : OpSuspend(i)
  \/ \E i \in Tasks, v \in Values : OpReturn(i, v)
  \/ \E i \in Tasks, x \in OpFailures : OpRaise(i, x)
  \/ \E i \in Tasks, ok \in BOOLEAN : LogInfo(i, ok)
  \/ \E i \in Tasks, ok \in BOOLEAN : LogError(i, ok)
  \/ \E i \in Tasks : Finally(i)
  \/ Tick

Spec == Init /\ [][Next]_vars

(* ---------------- the domain event recorders ---------------- *)

\* label names given when the counters are constructed
SensorLabelNames == {}
ModelLabelNames == {"model_type"}

\* Counter.labels(**given): a metric constructed without label names has no
\* children and rejects the call with ValueError, and so does a call whose
\* label names differ from the declared ones
LabelsAccepted(declared, given) == declared # {} /\ given = declared

SensorRecord(d, t) ==
  [level |-> "info", event |-> "Sensor data received", device_id |-> d,
   data_type |-> t, timestamp |-> now, inv |-> NoTask]

PredictionRecord(t, c) ==
  [level |-> "info", event |-> "ML prediction made", model_type |-> t,
   confidence |-> c, timestamp |-> now, inv |-> NoTask]

ServerRecord(port) ==
  [level |-> "info", event |-> <<"Metrics server started on port", port>>,
   inv |-> NoTask]

\* how a recorder call ended: the failure raised, the counter increments and the
\* log events it made
Ended(fn, raised, incs, logs) == [fn |-> fn, raised |-> raised, incs |-> incs, logs |-> logs]

\* log_sensor_data(device_id, data_type)
log_sensor_data(d, t, ok) ==
  /\ recCalls < MaxRecCalls
  /\ recCalls' = recCalls + 1
  /\ IF ~LabelsAccepted(SensorLabelNames, {})
       THEN /\ lastCall' = Ended("log_sensor_data", "ValueError", 0, 0)
            /\ UNCHANGED <<SENSOR_DATA_COUNT, log>>
       ELSE /\ SENSOR_DATA_COUNT' = SENSOR_DATA_COUNT + 1
            /\ CASE LogOutcome("info", ok) = "emit" ->
                      /\ log' = Append(log, SensorRecord(d, t))
                      /\ lastCall' = Ended("log_sensor_data", "none", 1, 1)
                 [] LogOutcome("info", ok) = "drop" ->
                      /\ lastCall' = Ended("log_sensor_data", "none", 1, 0)
                      /\ UNCHANGED log
                 [] LogOutcome("info", ok) = "raise" ->
                      /\ lastCall' = Ended("log_sensor_data", LogFailure, 1, 0)
                      /\ UNCHANGED log
  /\ UNCHANGED MODEL_PREDICTIONS
  /\ UNCHANGED <<wrapVars, now, minLevel>>

\* log_ml_prediction(model_type, confidence)
log_ml_prediction(t, c, ok) ==
  /\ recCalls < MaxRecCalls
  /\ recCalls' = recCalls + 1
  /\ IF ~LabelsAccepted(ModelLabelNames, {"model_type"})
       THEN /\ lastCall' = Ended("log_ml_prediction", "ValueError", 0, 0)
            /\ UNCHANGED <<MODEL_PREDICTIONS, log>>
       ELSE /\ MODEL_PREDICTIONS' = CounterInc(MODEL_PREDICTIONS, t)
            /\ CASE LogOutcome("info", ok) = "emit" ->
                      /\ log' = Append(log, PredictionRecord(t, c))
                      /\ lastCall' = Ended("log_ml_prediction", "none", 1, 1)
                 [] LogOutcome("info", ok) = "drop" ->
                      /\ lastCall' = Ended("log_ml_prediction", "none", 1, 0)
                      /\ UNCHANGED log
                 [] LogOutcome("info", ok) = "raise" ->
                      /\ lastCall' = Ended("log_ml_prediction", LogFailure, 1, 0)
                      /\ UNCHANGED log
  /\ UNCHANGED SENSOR_DATA_COUNT
  /\ UNCHANGED <<wrapVars, now, minLevel>>

\* start_metrics_server(port): start_http_server(port), then logger.info(...)
\* bound = FALSE: the server cannot bind the port and start_http_server raises
start_metrics_server(port, bound, ok) ==
  /\ recCalls < MaxRecCalls
  /\ recCalls' = recCalls + 1
  /\ IF ~bound
       THEN /\ lastCall' = Ended("start_metrics_server", "OSError", 0, 0)
            /\ UNCHANGED log
       ELSE CASE LogOutcome("info", ok) = "emit" ->
                   /\ log' = Append(log, ServerRecord(port))
                   /\ lastCall' = Ended("start_metrics_server", "none", 0, 1)
              [] LogOutcome("info", ok) = "drop" ->
                   /\ lastCall' = Ended("start_metrics_server", "none", 0, 0)
                   /\ UNCHANGED log
              [] LogOutcome("info", ok) = "raise" ->
                   /\ lastCall' = Ended("start_metrics_server", LogFailure, 0, 0)
                   /\ UNCHANGED log
  /\ UNCHANGED <<SENSOR_DATA_COUNT, MODEL_PREDICTIONS>>
  /\ UNCHANGED <<wrapVars, now, minLevel>>

RecNext ==
  \/ \E d \in DeviceIds, t \in DataTypes, ok \in BOOLEAN : log_sensor_data(d, t, ok)
  \/ \E t \in ModelTypes, c \in Confidences, ok \in BOOLEAN : log_ml_prediction(t, c, ok)
  \/ \E p \in Ports, bound \in BOOLEAN, ok \in BOOLEAN : start_metrics_server(p, bound, ok)
  \/ Tick

RecSpec == Init /\ [][RecNext]_vars

\* the whole module: wrapped operations and recorder calls in any order, a
\* recorder call made from inside a wrapped operation included
System == Init /\ [][Next \/ RecNext]_vars

(* ---------------- properties ---------------- *)

\* the invocation has made its counter increment
Incremented(i) == pc[i] \notin {"idle", "inc"}
Exited(i) == pc[i] = "done"
InFlight(i) == Incremented(i) /\ ~Exited(i)
\* log events emitted by invocation i
LogsBy(i) == Cardinality({k \in 1..Len(log) : log[k].inv = i})
ErrorLogsBy(i) == Cardinality({k \in 1..Len(log) : log[k].inv = i /\ log[k].level = "error"})
\* value of the request counter for an endpoint, over its method labels
EndpointTotal(e) == REQUEST_COUNT[<<"GET", e>>] + REQUEST_COUNT[<<"POST", e>>]
RequestTotal == EndpointTotal("upload") + EndpointTotal("health")
\* positions of wrapper outside the awaited operation
SyncPositions == {"inc", "call", "info", "except", "finally"}

\* C1: every invocation that has exited wrapper has emitted exactly one log
\* event, whatever the exit path.
C1_ExactlyOneLog == \A i \in Tasks : Exited(i) => LogsBy(i) = 1

\* C2: every invocation that got past the counter increment has made no
\* observation before it exits and exactly one when it has exited, on every exit
\* path; the histogram holds exactly the observations of the exited invocations.
C2_OneObservation ==
  /\ \A i \in Tasks : observed[i] = IF Exited(i) THEN 1 ELSE 0
  /\ REQUEST_DURATION.count = Cardinality({i \in Tasks : observed[i] > 0})

\* C2 witness: one invocation was cancelled and another had both of its logging
\* calls fail, and each has exited with its one observation.
C2_Witness ==
  \E i, j \in Tasks :
    /\ Exited(i) /\ opOut[i] = Raise("CancelledError") /\ observed[i] = 1
    /\ Exited(j) /\ opOut[j].kind = "return" /\ outcome[j] = Raise(LogFailure)
    /\ LogsBy(j) = 0 /\ observed[j] = 1

\* C3: the caller receives the result the operation returned, or the failure it
\* raised after exactly one error log and one observation, and never an error
\* the operation did not raise.
C3_Transparent ==
  \A i \in Tasks : Exited(i) =>
    /\ opOut[i].kind = "return" => outcome[i] = opOut[i]
    /\ (opOut[i].kind = "raise" /\ IsException(opOut[i].val)) =>
         outcome[i] = opOut[i] /\ ErrorLogsBy(i) = 1 /\ observed[i] = 1
    /\ outcome[i].kind = "raise" => outcome[i] = opOut[i]

\* C4: the caller never receives the failure of a telemetry call in place of
\* the outcome of the operation.
C4_TelemetryFailureIsolated ==
  \A i \in Tasks : Exited(i) => outcome[i] # Raise(LogFailure)

\* C5: the request counter of each endpoint equals the number of invocations for
\* that endpoint that have reached the operation (running, suspended, failed,
\* cancelled or exited alike): one increment each, made before the operation starts.
C5_CountsAttempts ==
  \A e \in Endpoints :
    EndpointTotal(e) = Cardinality({i \in Tasks : Incremented(i) /\ endpoint[i] = e})

\* C5 witness: an invocation is suspended inside its operation, its endpoint's
\* counter already shows it and the other endpoint's counter is untouched.
C5_Witness ==
  \E i \in Tasks :
    /\ pc[i] = "await" /\ EndpointTotal(endpoint[i]) = 1
    /\ \A e \in Endpoints \ {endpoint[i]} : EndpointTotal(e) = 0

\* C6: once all the invocations have exited, each endpoint's counter equals the
\* number of invocations made on it and the histogram count equals the number of
\* invocations, in every interleaving.
C6_NoLostUpdates ==
  (\A i \in Tasks : Exited(i)) =>
    /\ \A e \in Endpoints :
         EndpointTotal(e) = Cardinality({i \in Tasks : endpoint[i] = e})
    /\ REQUEST_DURATION.count = Cardinality(Tasks)

\* C6 witness: all the invocations ran on one endpoint and overlapped (a later
\* invocation finished before an earlier one), and the counts are complete.
C6_Witness ==
  /\ \A i \in Tasks : Exited(i) /\ endpoint[i] = "upload"
  /\ \E k, l \in 1..Len(log) : k < l /\ log[k].inv > log[l].inv
  /\ EndpointTotal("upload") = Cardinality(Tasks)
  /\ REQUEST_DURATION.count = Cardinality(Tasks)

\* C7: every call of a recorder returns normally having made exactly one counter
\* increment and emitted exactly one log event.
C7_RecorderTotal ==
  lastCall.fn \in {"log_sensor_data", "log_ml_prediction"} =>
    lastCall.raised = "none" /\ lastCall.incs = 1 /\ lastCall.logs = 1

\* C8: each (method, endpoint) child of the request counter counts the
\* invocations of operations of that method on that endpoint.
C8_RealMethodLabel ==
  \A m \in Methods, e \in Endpoints :
    REQUEST_COUNT[<<m, e>>] =
      Cardinality({i \in Tasks : Incremented(i) /\ method[i] = m /\ endpoint[i] = e})

\* C9: while an invocation is at a position of wrapper outside the awaited
\* operation, no other invocation takes a step: nothing interleaves between the
\* start and the counter increment, or between the outcome log and the observation.
C9_NoOwnSuspension ==
  [][\A i \in Tasks : pc[i] \in SyncPositions =>
        \A j \in Tasks \ {i} : pc'[j] = pc[j]]_vars

\* C9 witness: an invocation stands between its log and its observation while
\* another one is suspended in its operation and could be resumed.
C9_Witness ==
  \E i, j \in Tasks : i # j /\ pc[i] = "finally" /\ LogsBy(i) = 1 /\ pc[j] = "await"

\* C10: the observations never exceed the counter increments, the difference is
\* the number of invocations in flight, and the totals agree when none is.
C10_CountsBalance ==
  LET inflight == Cardinality({i \in Tasks : InFlight(i)}) IN
    /\ REQUEST_DURATION.count <= RequestTotal
    /\ RequestTotal - REQUEST_DURATION.count = inflight
    /\ inflight = 0 => RequestTotal = REQUEST_DURATION.count

\* C10 witness: one invocation has exited while another is still in flight.
C10_Witness ==
  \E i, j \in Tasks : Exited(i) /\ InFlight(j) /\ REQUEST_DURATION.count = 1
                      /\ RequestTotal = 2

====
